---------------------------- MODULE Spec2Model ----------------------------
(***************************************************************************)
(* Lead prioritisation and SLA scoring of Project X                        *)
(* (src/project_x_singlefile.py, src/priority_component.py).               *)
(*                                                                         *)
(* Numbers.  The program computes with floats; the model computes the same *)
(* formulas exactly, over integers:                                        *)
(*   - time is counted in whole hours, so (deadline - now) in hours is an  *)
(*     integer;                                                            *)
(*   - money is counted in units of 1/ValueScale;                          *)
(*   - weights are counted in units of 1/WScale (the slider step, 0.05);   *)
(*   - a score is a fraction score_num / score_den.                        *)
(***************************************************************************)
EXTENDS Integers, Sequences, FiniteSets, TLC

VARIABLES
    leads,      \* the leads table: a sequence of Lead records, by id
    estimates,  \* the estimates table: a sequence of Estimate records
    clock,      \* the wall clock, datetime.utcnow(), in hours
    weights,    \* st.session_state.weights
    board,      \* what the last run of the Pipeline Board page produced
    analytics,  \* what the last run of the Analytics & SLA page produced
    evalA,      \* compute_priority_for_lead_row applied to a lead row ...
    evalB,      \* ... and to a second row that differs from it in one input
    tiers,      \* the urgency labels the two renderers give one score
    kpis,       \* the KPI code of the Pipeline Board applied to a snapshot
    run         \* a run of the Pipeline Board page in progress, step by step

vars == <<leads, estimates, clock, weights, board, analytics, evalA, evalB, tiers,
          kpis, run>>

\* NULL in a nullable column
Null == -1

\* a stored value that is text and neither a number nor a date: int() and
\* datetime.fromisoformat() raise on it
Unparsable == -2

Min(a, b) == IF a <= b THEN a ELSE b
Max(a, b) == IF a >= b THEN a ELSE b

(***************************************************************************)
(* Program constants                                                       *)
(***************************************************************************)
SlaWindow == 72
DefaultSlaHours == 24
TopN == 8
WScale == 20
CriticalPct == 70
HighPct == 45
TimeLeftOnError == 9999

(***************************************************************************)
(* Money units per 1.0 of the program's money; a bound of the model        *)
(***************************************************************************)
ValueScale == 4

LeadStatus_NEW == "New"
LeadStatus_CONTACTED == "Contacted"
LeadStatus_INSPECTION_SCHEDULED == "Inspection Scheduled"
LeadStatus_INSPECTION_COMPLETED == "Inspection Completed"
LeadStatus_ESTIMATE_SUBMITTED == "Estimate Submitted"
LeadStatus_AWARDED == "Awarded"
LeadStatus_LOST == "Lost"

LeadStatusALL ==
    <<LeadStatus_NEW, LeadStatus_CONTACTED, LeadStatus_INSPECTION_SCHEDULED,
      LeadStatus_INSPECTION_COMPLETED,
      LeadStatus_ESTIMATE_SUBMITTED, LeadStatus_AWARDED, LeadStatus_LOST>>

\* The weights the sidebar starts with: 0.5, 0.35, 0.15; 0.6, 0.5, 0.5; and a
\* value baseline (5000 in the program, two money units here).
DefaultWeights ==
    [value_weight |-> 10, sla_weight |-> 7, urgency_weight |-> 3,
     contacted_w |-> 12, inspection_w |-> 10, estimate_w |-> 10,
     value_baseline |-> 2 * ValueScale]

\* what the pages have produced before they run
NoBoard == [shown |-> FALSE]
NoAnalytics == [shown |-> FALSE]
NoKpis == [done |-> FALSE]
NoRun == [pc |-> "idle", writes |-> 0]

(***************************************************************************)
(* compute_priority_for_lead_row                                           *)
(***************************************************************************)
\* max(1.0, baseline), in money units
BaselineDen(w) == Max(ValueScale, w.value_baseline)

\* value_score = min(1.0, val / max(1.0, baseline)), as a numerator over
\* BaselineDen(w)
ValueScoreFloorDiv(val, w) ==
    Min(BaselineDen(w), (val \div BaselineDen(w)) * BaselineDen(w))

value_score(val, w) == Min(BaselineDen(w), val)

\* sla_entered = row.sla_entered_at or row.created_at or utcnow(); a string
\* is parsed, and one that does not parse is replaced by utcnow()
SlaEntered(row, now) ==
    LET first == IF row.sla_entered_at # Null THEN row.sla_entered_at
                 ELSE IF row.created_at # Null THEN row.created_at
                 ELSE now
    IN  IF first = Unparsable THEN now ELSE first

\* int(x) raises ValueError
IntRaises(x) == x = Unparsable

\* int(row.sla_hours or 24), where int() does not raise
SlaHours(row) ==
    IF row.sla_hours = 0 \/ row.sla_hours = Null THEN DefaultSlaHours
    ELSE row.sla_hours

\* deadline = sla_entered + timedelta(hours=int(sla_hours or 24))
Deadline(row, now) == SlaEntered(row, now) + SlaHours(row)

\* try: time_left_h = max((deadline - utcnow()).total_seconds() / 3600.0, 0.0)
\* except Exception: time_left_h = 9999.0
time_left_h(row, now) ==
    IF IntRaises(row.sla_hours) THEN TimeLeftOnError
    ELSE Max(Deadline(row, now) - now, 0)

\* sla_score = max(0.0, (72.0 - min(time_left_h, 72.0)) / 72.0), as a
\* numerator over SlaWindow
SlaScoreDayWindow(h) ==
    (SlaWindow \div DefaultSlaHours)
      * Max(0, DefaultSlaHours - Min(h, DefaultSlaHours))

sla_score(h) == Max(0, SlaWindow - Min(h, SlaWindow))

\* the sum of the sub-weights of the flags that are false, in 1/WScale
UrgencyOfSetFlags(row, w) ==
      (IF row.contacted THEN w.contacted_w ELSE 0)
    + (IF row.inspection_scheduled THEN w.inspection_w ELSE 0)
    + (IF row.estimate_submitted THEN w.estimate_w ELSE 0)

urgency_component(row, w) ==
      (IF row.contacted THEN 0 ELSE w.contacted_w)
    + (IF row.inspection_scheduled THEN 0 ELSE w.inspection_w)
    + (IF row.estimate_submitted THEN 0 ELSE w.estimate_w)

\* total_weight, with a sum <= 0 replaced by 1.0; in 1/WScale
TotalWeightUnguarded(w) ==
    w.value_weight + w.sla_weight + w.urgency_weight

total_weight(w) ==
    LET tw == w.value_weight + w.sla_weight + w.urgency_weight
    IN  IF tw <= 0 THEN WScale ELSE tw

\* score = max(0.0, min(1.0, score)) on a fraction num / den, den > 0
NoClamp(num, den) == num

Clamp(num, den) == Max(0, Min(den, num))

\* The score is score_num / score_den.  With value_score = vs / B,
\* sla_score = ss / 72 and urgency_component = uc / WScale, the weighted sum
\* over total_weight is
\*   (vs*vw*72*WScale + ss*sw*B*WScale + uc*uw*B*72) / (B*72*WScale*tw).
ComputePriorityUrgencyUnweighted(row, w, now) ==
    LET B   == BaselineDen(w)
        vs  == value_score(row.estimated_value, w)
        h   == time_left_h(row, now)
        ss  == sla_score(h)
        uc  == urgency_component(row, w)
        tw  == total_weight(w)
        den == B * SlaWindow * WScale * tw
        raw == vs * w.value_weight * SlaWindow * WScale
                 + ss * w.sla_weight * B * WScale
                 + uc * WScale * B * SlaWindow
    IN  [value_score |-> vs, value_den |-> B, time_left_h |-> h,
         sla_score |-> ss, urgency_component |-> uc,
         raw_num |-> raw,
         score_num |-> Clamp(raw, den), score_den |-> den]

compute_priority_for_lead_row(row, w, now) ==
    LET B   == BaselineDen(w)
        vs  == value_score(row.estimated_value, w)
        h   == time_left_h(row, now)
        ss  == sla_score(h)
        uc  == urgency_component(row, w)
        tw  == total_weight(w)
        den == B * SlaWindow * WScale * tw
        raw == vs * w.value_weight * SlaWindow * WScale
                 + ss * w.sla_weight * B * WScale
                 + uc * w.urgency_weight * B * SlaWindow
    IN  [value_score |-> vs, value_den |-> B, time_left_h |-> h,
         sla_score |-> ss, urgency_component |-> uc,
         raw_num |-> raw,
         score_num |-> Clamp(raw, den), score_den |-> den]

(***************************************************************************)
(* The scorer on its own: a lead row, a weights configuration and a        *)
(* current time, and a second evaluation that differs in one input.        *)
(***************************************************************************)
ScoreValues == {0, 1, 2, 5, 2 * ValueScale + 1}
ScoreSlaHours == {24, 96}
ScoreNows == {0, 12, 24, 30, 96, 100}
ScoreBaselines == {ValueScale - 1, 2 * ValueScale}
ScoreSubWeights == {<<12, 10, 10>>, <<0, 20, 20>>}

ScoreWeights ==
    { [value_weight |-> vw, sla_weight |-> sw, urgency_weight |-> uw,
       contacted_w |-> sub[1], inspection_w |-> sub[2], estimate_w |-> sub[3],
       value_baseline |-> b] :
        vw \in {0, 10}, sw \in {0, 7}, uw \in {0, 3, 20},
        sub \in ScoreSubWeights, b \in ScoreBaselines }

ScoreRow(v, sh, c, i, e) ==
    [id |-> 1, estimated_value |-> v, status |-> LeadStatus_NEW, created_at |-> 0,
     sla_hours |-> sh, sla_entered_at |-> 0, contacted |-> c,
     inspection_scheduled |-> i, estimate_submitted |-> e,
     awarded_date |-> Null, qualified |-> FALSE]

ScoreRows ==
    { ScoreRow(v, sh, c, i, e) :
        v \in ScoreValues, sh \in ScoreSlaHours,
        c \in BOOLEAN, i \in BOOLEAN, e \in BOOLEAN }

\* the inputs that differ from (row, now) in the value, in the flags or in now
Variants(row, now) ==
         { <<[row EXCEPT !.estimated_value = v], now>> : v \in ScoreValues }
    \cup { <<[row EXCEPT !.contacted = c, !.inspection_scheduled = i,
                         !.estimate_submitted = e], now>> :
             c \in BOOLEAN, i \in BOOLEAN, e \in BOOLEAN }
    \cup { <<row, t>> : t \in ScoreNows }

\* an evaluation: the inputs, whether the scorer has run, and what it returned
Evaluation(row, w, now) ==
    [row |-> row, w |-> w, now |-> now, scored |-> FALSE]

NoEval == [scored |-> FALSE]

Scored(ev) ==
    [row |-> ev.row, w |-> ev.w, now |-> ev.now, scored |-> TRUE,
     out |-> compute_priority_for_lead_row(ev.row, ev.w, ev.now)]

\* the application after start: empty tables and the sidebar's weights
InitIdle ==
    /\ leads = <<>>
    /\ estimates = <<>>
    /\ clock = 0
    /\ weights = DefaultWeights
    /\ board = NoBoard
    /\ kpis = NoKpis
    /\ run = NoRun
    /\ analytics = NoAnalytics
    /\ evalA = NoEval
    /\ evalB = NoEval
    /\ tiers = [labelled |-> FALSE]

InitScore ==
    /\ leads = <<>>
    /\ estimates = <<>>
    /\ clock = 0
    /\ weights = DefaultWeights
    /\ board = NoBoard
    /\ kpis = NoKpis
    /\ run = NoRun
    /\ analytics = NoAnalytics
    /\ tiers = [labelled |-> FALSE]
    /\ \E w \in ScoreWeights, row \in ScoreRows, now \in ScoreNows :
         \E var \in Variants(row, now) :
            /\ evalA = Evaluation(row, w, now)
            /\ evalB = Evaluation(var[1], w, var[2])

\* both rows are scored, as the rows of one data frame are
ScorePair ==
    /\ ~evalA.scored
    /\ "row" \in DOMAIN evalA
    /\ evalA' = Scored(evalA)
    /\ evalB' = Scored(evalB)
    /\ UNCHANGED <<leads, estimates, clock, weights, board, analytics, tiers, kpis, run>>

SpecScore == InitScore /\ [][ScorePair]_vars

(***************************************************************************)
(* The urgency label of a score, score = num / den                         *)
(***************************************************************************)
CRITICAL == "CRITICAL"
HIGH == "HIGH"
NORMAL == "NORMAL"

\* Pipeline Board, priority cards: if score >= 0.7 ... elif score >= 0.45
BoardTierStrict(num, den) ==
    IF 100 * num > CriticalPct * den THEN CRITICAL
    ELSE IF 100 * num > HighPct * den THEN HIGH
    ELSE NORMAL

BoardTier(num, den) ==
    IF 100 * num >= CriticalPct * den THEN CRITICAL
    ELSE IF 100 * num >= HighPct * den THEN HIGH
    ELSE NORMAL

\* render_priority_leads: if score >= 0.7 ... elif score >= 0.45
ComponentTier(num, den) ==
    IF 10 * num >= 7 * den THEN CRITICAL
    ELSE IF 100 * num >= 45 * den THEN HIGH
    ELSE NORMAL

\* the scores the classifier is tried on: every multiple of 1/20 and of 1/100
TierDens == {20, 100}

InitTier ==
    /\ leads = <<>>
    /\ estimates = <<>>
    /\ clock = 0
    /\ weights = DefaultWeights
    /\ board = NoBoard
    /\ kpis = NoKpis
    /\ run = NoRun
    /\ analytics = NoAnalytics
    /\ evalA = NoEval
    /\ evalB = NoEval
    /\ \E den \in TierDens : \E num \in 0..den :
          tiers = [num |-> num, den |-> den, labelled |-> FALSE]

\* one score is labelled by the Pipeline Board and by render_priority_leads
Classify ==
    /\ ~tiers.labelled
    /\ tiers' = [num |-> tiers.num, den |-> tiers.den, labelled |-> TRUE,
                 board |-> BoardTier(tiers.num, tiers.den),
                 component |-> ComponentTier(tiers.num, tiers.den)]
    /\ UNCHANGED <<leads, estimates, clock, weights, board, analytics, evalA, evalB, kpis, run>>

SpecTier == InitTier /\ [][Classify]_vars

\* C2: the tier is CRITICAL when score >= 0.70, HIGH when 0.45 <= score <
\* 0.70 and NORMAL when score < 0.45, and the Pipeline Board and
\* render_priority_leads give every score the same tier.
C2_TierThresholds ==
    tiers.labelled =>
        /\ tiers.board = tiers.component
        /\ (100 * tiers.num >= 70 * tiers.den) => tiers.board = CRITICAL
        /\ (100 * tiers.num >= 45 * tiers.den /\ 100 * tiers.num < 70 * tiers.den)
              => tiers.board = HIGH
        /\ (100 * tiers.num < 45 * tiers.den) => tiers.board = NORMAL

\* a score of exactly 0.45, the inclusive lower bound of HIGH
C2_Witness ==
    /\ tiers.labelled
    /\ 100 * tiers.num = 45 * tiers.den
    /\ tiers.board = HIGH
    /\ tiers.component = HIGH

(***************************************************************************)
(* Claims about the scorer                                                 *)
(***************************************************************************)
BothScored == evalA.scored /\ evalB.scored

AllFlags(row, b) ==
    /\ row.contacted = b
    /\ row.inspection_scheduled = b
    /\ row.estimate_submitted = b

\* C1: for every lead row, every non-negative weights configuration and
\* every current time, the score that compute_priority_for_lead_row returns
\* lies in [0,1]: 0 <= score_num <= score_den, with score_den positive.
C1_ScoreInUnitInterval ==
    \A ev \in {evalA, evalB} :
        ev.scored =>
            /\ ev.out.score_den > 0
            /\ 0 <= ev.out.score_num
            /\ ev.out.score_num <= ev.out.score_den

\* the weighted sum exceeds 1 before the clamp, under a value baseline below
\* 1 and flag sub-weights that sum above 1
C1_Witness ==
    /\ evalA.scored
    /\ evalA.w.value_baseline < ValueScale
    /\ evalA.w.contacted_w + evalA.w.inspection_w + evalA.w.estimate_w > WScale
    /\ evalA.out.raw_num > evalA.out.score_den
    /\ evalA.out.score_num = evalA.out.score_den

\* C8: of two leads that differ only in estimated_value, both below the
\* value baseline, the higher value has the strictly higher value_score and,
\* under the same weights and the same now, a total score that is not lower.
C8_ValueMonotone ==
    ( /\ BothScored
      /\ evalA.now = evalB.now
      /\ evalB.row = [evalA.row EXCEPT !.estimated_value = evalB.row.estimated_value]
      /\ evalA.row.estimated_value < evalB.row.estimated_value
      /\ evalB.row.estimated_value < evalA.w.value_baseline )
    => /\ evalA.out.value_den = evalB.out.value_den
       /\ evalA.out.value_score < evalB.out.value_score
       /\ evalA.out.score_den = evalB.out.score_den
       /\ evalA.out.score_num <= evalB.out.score_num

\* two positive values below a baseline that is itself below 1, with a value
\* weight that makes the total score strictly higher
C8_Witness ==
    /\ BothScored
    /\ evalA.now = evalB.now
    /\ evalB.row = [evalA.row EXCEPT !.estimated_value = evalB.row.estimated_value]
    /\ 0 < evalA.row.estimated_value
    /\ evalA.row.estimated_value < evalB.row.estimated_value
    /\ evalB.row.estimated_value < evalA.w.value_baseline
    /\ evalA.w.value_baseline < ValueScale
    /\ evalA.out.score_num < evalB.out.score_num

\* C9: sla_score is 0 whenever hours_left >= 72, is 1 when hours_left is 0,
\* and of two values of hours_left in [0,72] the smaller one has the strictly
\* larger sla_score.
C9_SlaScoreMonotone ==
    /\ \A ev \in {evalA, evalB} :
          ev.scored =>
              /\ ev.out.time_left_h >= SlaWindow => ev.out.sla_score = 0
              /\ ev.out.time_left_h = 0 => ev.out.sla_score = SlaWindow
    /\ ( /\ BothScored
         /\ evalA.out.time_left_h < evalB.out.time_left_h
         /\ evalB.out.time_left_h <= SlaWindow )
       => evalA.out.sla_score > evalB.out.sla_score

\* the same lead at two times, both strictly inside the 72 hour window
C9_Witness ==
    /\ BothScored
    /\ evalA.row = evalB.row
    /\ 0 < evalA.out.time_left_h
    /\ evalA.out.time_left_h < evalB.out.time_left_h
    /\ evalB.out.time_left_h < SlaWindow
    /\ evalA.out.sla_score > evalB.out.sla_score

\* C10: when urgency_weight is 0, the score with all three engagement flags
\* true equals the score of the same lead, weights and now with all three
\* flags false.
C10_FlagsIgnoredAtZeroUrgencyWeight ==
    ( /\ BothScored
      /\ evalA.w.urgency_weight = 0
      /\ evalA.now = evalB.now
      /\ AllFlags(evalA.row, TRUE)
      /\ evalB.row = [evalA.row EXCEPT !.contacted = FALSE,
                                       !.inspection_scheduled = FALSE,
                                       !.estimate_submitted = FALSE] )
    => /\ evalA.out.score_num = evalB.out.score_num
       /\ evalA.out.score_den = evalB.out.score_den

\* such a pair whose urgency components differ and whose score is not 0
C10_Witness ==
    /\ BothScored
    /\ evalA.w.urgency_weight = 0
    /\ evalA.now = evalB.now
    /\ AllFlags(evalA.row, TRUE)
    /\ AllFlags(evalB.row, FALSE)
    /\ evalB.row.estimated_value = evalA.row.estimated_value
    /\ evalA.out.urgency_component # evalB.out.urgency_component
    /\ evalA.out.score_num > 0

\* C11: when the three top-level weights (value, SLA, urgency) are all 0, the
\* normalization denominator is taken as 1 and the score of every lead is
\* exactly 0; the quotient has a denominator that is not 0.
C11_ZeroWeightsScoreZero ==
    \A ev \in {evalA, evalB} :
        ( /\ ev.scored
          /\ ev.w.value_weight = 0
          /\ ev.w.sla_weight = 0
          /\ ev.w.urgency_weight = 0 )
        => /\ total_weight(ev.w) = WScale
           /\ ev.out.score_den = ev.out.value_den * SlaWindow * WScale * WScale
           /\ ev.out.score_den > 0
           /\ ev.out.score_num = 0

\* a lead scored under all-zero weights whose three components are all
\* positive: a high value, an SLA past its deadline and three unmet flags
C11_Witness ==
    /\ BothScored
    /\ evalA.w.value_weight = 0
    /\ evalA.w.sla_weight = 0
    /\ evalA.w.urgency_weight = 0
    /\ evalA.out.value_score > 0
    /\ evalA.out.sla_score > 0
    /\ evalA.out.urgency_component > 0
    /\ evalA.out.score_num = 0

\* the sub-weight configured for an engagement flag, and the flags of a row
\* that are false
SubWeightOf(w, flag) ==
    CASE flag = "contacted" -> w.contacted_w
      [] flag = "inspection_scheduled" -> w.inspection_w
      [] flag = "estimate_submitted" -> w.estimate_w

UnmetFlags(row) ==
    { f \in {"contacted", "inspection_scheduled", "estimate_submitted"} : ~row[f] }

RECURSIVE SumSubWeights(_, _)
SumSubWeights(w, flags) ==
    IF flags = {} THEN 0
    ELSE LET f == CHOOSE x \in flags : TRUE
         IN  SubWeightOf(w, f) + SumSubWeights(w, flags \ {f})

\* C12: the score is clamp((value_score*value_weight + sla_score*sla_weight
\* + urgency_component*urgency_weight) / total_weight, 0, 1), where
\* urgency_component is the sum of the configured sub-weights of exactly the
\* engagement flags that are false; a lead of value 0, at its deadline, with
\* only contacted unmet scores 0.44 under the default weights, tier NORMAL.
C12_WeightedSumFormula ==
    \A ev \in {evalA, evalB} :
        ev.scored =>
            LET o   == ev.out
                w   == ev.w
                sum == w.value_weight + w.sla_weight + w.urgency_weight
                tw  == IF sum <= 0 THEN WScale ELSE sum
                \* the three terms over the common denominator
                \* value_den * SlaWindow * WScale * tw
                num == o.value_score * w.value_weight * SlaWindow * WScale
                         + o.sla_score * w.sla_weight * o.value_den * WScale
                         + o.urgency_component * w.urgency_weight
                             * o.value_den * SlaWindow
            IN  /\ o.urgency_component = SumSubWeights(w, UnmetFlags(ev.row))
                /\ o.score_den = o.value_den * SlaWindow * WScale * tw
                /\ o.score_num = (IF num < 0 THEN 0
                                  ELSE IF num > o.score_den THEN o.score_den
                                  ELSE num)
                /\ ( /\ w = DefaultWeights
                     /\ ev.row.estimated_value = 0
                     /\ ev.now = ev.row.sla_entered_at + ev.row.sla_hours
                     /\ UnmetFlags(ev.row) = {"contacted"} )
                   => /\ 100 * o.score_num = 44 * o.score_den
                      /\ BoardTier(o.score_num, o.score_den) = NORMAL
                      /\ ComponentTier(o.score_num, o.score_den) = NORMAL

\* the example of the claim is scored: value 0, at the deadline, only
\* contacted unmet, default weights
C12_Witness ==
    /\ BothScored
    /\ evalA.w = DefaultWeights
    /\ evalA.row.estimated_value = 0
    /\ evalA.now = evalA.row.sla_entered_at + evalA.row.sla_hours
    /\ UnmetFlags(evalA.row) = {"contacted"}
    /\ evalA.out.sla_score = SlaWindow
    /\ evalA.out.urgency_component = DefaultWeights.contacted_w
    /\ 100 * evalA.out.score_num = 44 * evalA.out.score_den

(***************************************************************************)
(* The clock during one run of a page.  A run reads utcnow() once per use, *)
(* and the clock may advance between two reads: a plan gives, for each     *)
(* advance of one hour, the read it precedes (reads + 1: after the last).  *)
(***************************************************************************)
MaxClock == 3
MaxAdvance == 1

AdvancePlans(reads) ==
    LET K == Min(MaxAdvance, MaxClock - clock)
    IN  { ps \in [1..K -> 1..(reads + 1)] :
            \A j \in 1..(K - 1) : ps[j] <= ps[j + 1] }

ReadAt(ps, i) == clock + Cardinality({ j \in DOMAIN ps : ps[j] <= i })

(***************************************************************************)
(* leads_df: the snapshot of the leads table as rows                       *)
(***************************************************************************)
leads_df(store) ==
    [ i \in 1..Len(store) |->
        [id |-> store[i].id,
         estimated_value |->
             IF store[i].estimated_value = Null THEN 0 ELSE store[i].estimated_value,
         status |-> store[i].status,
         created_at |-> store[i].created_at,
         sla_hours |-> IF store[i].sla_hours = 0 \/ store[i].sla_hours = Null
                       THEN DefaultSlaHours ELSE store[i].sla_hours,
         sla_entered_at |-> IF store[i].sla_entered_at # Null
                            THEN store[i].sla_entered_at ELSE store[i].created_at,
         contacted |-> store[i].contacted,
         inspection_scheduled |-> store[i].inspection_scheduled,
         estimate_submitted |-> store[i].estimate_submitted,
         awarded_date |-> store[i].awarded_date,
         qualified |-> store[i].qualified] ]

\* the number of TRUE entries of a sequence of flags
Count(flags) == Cardinality({ i \in DOMAIN flags : flags[i] })

RECURSIVE SumSeq(_)
SumSeq(q) == IF q = <<>> THEN 0 ELSE q[1] + SumSeq(Tail(q))

\* a quotient num / den, and the 0.0 that guards a zero denominator
RateUnguarded(num, den) == [num |-> num, den |-> den]

Rate(num, den) == IF den = 0 THEN [num |-> 0, den |-> 1] ELSE [num |-> num, den |-> den]

(***************************************************************************)
(* Pipeline Board: compute_sla_metrics and the KPIs                        *)
(***************************************************************************)
\* breached = (utcnow() > deadline) and not contacted
Breached(now, deadline, contacted) == now > deadline /\ ~contacted

\* the rows compute_sla_metrics builds; the read of row i is read base + i
SlaRows(df, ps, base) ==
    [ i \in 1..Len(df) |->
        LET now      == ReadAt(ps, base + i)
            deadline == Deadline(df[i], now)
        IN  [id |-> df[i].id, contacted |-> df[i].contacted,
             breached |-> Breached(now, deadline, df[i].contacted),
             sla_hours |-> SlaHours(df[i]),
             now |-> now, deadline |-> deadline] ]

\* sla_hours = int(r.get("sla_hours") or 24) is outside any try: the first
\* row on which it raises, 0 when there is none
SlaMetricsRaiseAt(df) ==
    IF \E i \in DOMAIN df : IntRaises(df[i].sla_hours)
    THEN CHOOSE i \in DOMAIN df :
            /\ IntRaises(df[i].sla_hours)
            /\ \A j \in 1..(i - 1) : ~IntRaises(df[j].sla_hours)
    ELSE 0

compute_sla_metrics(df, ps, base) ==
    LET rows  == SlaRows(df, ps, base)
        total == Len(rows)
        contacted_count == Count([ i \in DOMAIN rows |-> rows[i].contacted ])
        breached_count == Count([ i \in DOMAIN rows |-> rows[i].breached ])
    IN  IF total = 0
        THEN [rows |-> rows, total |-> 0,
              sla_success_pct |-> Rate(0, 0), sla_breach_rate |-> Rate(0, 0),
              avg_time_to_first_contact |-> Rate(0, 0)]
        ELSE [rows |-> rows, total |-> total,
              sla_success_pct |-> Rate(contacted_count, total),
              sla_breach_rate |-> Rate(breached_count, total),
              avg_time_to_first_contact |->
                  [num |-> SumSeq([ i \in 1..total |->
                                      IF rows[i].contacted THEN rows[i].sla_hours ELSE 0 ]),
                   den |-> 2 * Max(1, contacted_count)]]

\* the hours from created to awarded of the awarded leads that have a date
ConvTimesAnyStatus(df) ==
    LET idx == { i \in 1..Len(df) : df[i].awarded_date # Null }
    IN  [n |-> Cardinality(idx),
         sum |-> SumSeq([ i \in 1..Len(df) |->
                            IF i \in idx THEN Max(0, df[i].awarded_date - df[i].created_at)
                            ELSE 0 ])]

ConvTimes(df) ==
    LET Won(r) == r.status = LeadStatus_AWARDED /\ r.awarded_date # Null
        idx == { i \in 1..Len(df) : Won(df[i]) }
    IN  [n |-> Cardinality(idx),
         sum |-> SumSeq([ i \in 1..Len(df) |->
                            IF i \in idx THEN Max(0, df[i].awarded_date - df[i].created_at)
                            ELSE 0 ])]

\* inspected_booked = int(df[df["inspection_scheduled"] == True].shape[0])
InspectedBookedOfQualified(df) ==
    Count([ i \in DOMAIN df |-> df[i].inspection_scheduled /\ df[i].qualified ])

inspected_booked(df) == Count([ i \in DOMAIN df |-> df[i].inspection_scheduled ])

\* est_sub_count = int(df[df["estimate_submitted"] == True].shape[0])
est_sub_count(df) == Count([ i \in DOMAIN df |-> df[i].estimate_submitted ])

\* awarded_count = int(df[df["status"] == LeadStatus.AWARDED].shape[0])
AwardedCountOfSubmitted(df) ==
    Count([ i \in DOMAIN df |->
              df[i].status = LeadStatus_AWARDED /\ df[i].estimate_submitted ])

awarded_count(df) == Count([ i \in DOMAIN df |-> df[i].status = LeadStatus_AWARDED ])

BoardKPIs(df, ps, base) ==
    LET qual_total == Len(df)
        qual_count == IF qual_total # 0
                      THEN Count([ i \in DOMAIN df |-> df[i].qualified ]) ELSE 0
        times == ConvTimes(df)
    IN  [sla_metrics |-> compute_sla_metrics(df, ps, base),
         qual_rate |-> Rate(qual_count, qual_total),
         inspection_conversion |-> Rate(inspected_booked(df), qual_count),
         estimate_win_rate |-> Rate(awarded_count(df), est_sub_count(df)),
         awarded_count |-> awarded_count(df),
         cpa_per_won |-> 0,
         conv_velocity |-> Rate(times.sum, times.n)]

(***************************************************************************)
(* Pipeline Board: the priority list                                       *)
(***************************************************************************)
\* overdue = remaining.total_seconds() <= 0, remaining = deadline - utcnow()
Overdue(deadline, now) == deadline - now <= 0

\* float(max(0.0, (deadline - utcnow()).total_seconds() / 3600.0))
TimeLeftHoursUnclamped(deadline, now) == deadline - now

time_left_hours(deadline, now) == Max(0, deadline - now)

\* One entry of priority_list.  The scorer reads the clock at t1, the overdue
\* flag at t2 and time_left_hours at t3; the utcnow() that stands in for a
\* missing SLA entry time is read with the scorer and with the overdue flag.
PriorityEntry(row, w, t1, t2, t3) ==
    LET out      == compute_priority_for_lead_row(row, w, t1)
        deadline == Deadline(row, t2)
    IN  [id |-> row.id,
         estimated_value |-> row.estimated_value,
         time_left_hours |-> time_left_hours(deadline, t3),
         priority_score |-> out.score_num,
         score_den |-> out.score_den,
         status |-> row.status,
         sla_overdue |-> Overdue(deadline, t2),
         sla_deadline |-> deadline,
         scorer_time_left |-> out.time_left_h,
         t_score |-> t1, t_overdue |-> t2, t_left |-> t3]

\* timedelta(hours=int(row.get("sla_hours") or 24)) is outside the try that
\* guards the scorer
PriorityListRaises(df) == \E i \in DOMAIN df : IntRaises(df[i].sla_hours)

priority_list(df, w, ps, base) ==
    [ i \in 1..Len(df) |->
        PriorityEntry(df[i], w,
                      ReadAt(ps, base + 3 * (i - 1) + 1),
                      ReadAt(ps, base + 3 * (i - 1) + 2),
                      ReadAt(ps, base + 3 * (i - 1) + 3)) ]

\* the entries by priority_score, highest first, equal scores in list order
RECURSIVE InsertDesc(_, _)
InsertDesc(e, q) ==
    IF q = <<>> THEN <<e>>
    ELSE IF q[1].priority_score >= e.priority_score
         THEN <<q[1]>> \o InsertDesc(e, Tail(q))
         ELSE <<e>> \o q

RECURSIVE InsertAsc(_, _)
InsertAsc(e, q) ==
    IF q = <<>> THEN <<e>>
    ELSE IF q[1].priority_score <= e.priority_score
         THEN <<q[1]>> \o InsertAsc(e, Tail(q))
         ELSE <<e>> \o q

RECURSIVE StableSortDesc(_)
StableSortDesc(q) ==
    IF q = <<>> THEN <<>>
    ELSE InsertDesc(q[Len(q)], StableSortDesc(SubSeq(q, 1, Len(q) - 1)))

RECURSIVE StableSortAsc(_)
StableSortAsc(q) ==
    IF q = <<>> THEN <<>>
    ELSE InsertAsc(q[Len(q)], StableSortAsc(SubSeq(q, 1, Len(q) - 1)))

Swap(q, i, j) == [q EXCEPT ![i] = q[j], ![j] = q[i]]

\* the orders that differ from q in the places of two entries of equal score
TieSwaps(q) ==
    { Swap(q, i, j) : <<i, j>> \in
        { ij \in (1..Len(q)) \X (1..Len(q)) :
            ij[1] < ij[2] /\ q[ij[1]].priority_score = q[ij[2]].priority_score } }

\* pd.DataFrame(priority_list).sort_values("priority_score", ascending=False).
\* The sort is of the default kind, quicksort, which is not a stable sort:
\* the scores come out highest first, and entries of equal score come out in
\* list order or with two of them exchanged.
SortAscending(q) == {StableSortAsc(q)} \cup TieSwaps(StableSortAsc(q))

sort_values(q) == {StableSortDesc(q)} \cup TieSwaps(StableSortDesc(q))

\* pr_df.head(8)
head(q, n) == SubSeq(q, 1, Min(n, Len(q)))

\* the card of one of the top entries: its label and its SLA line
PriorityCard(r) ==
    [id |-> r.id,
     priority_label |-> BoardTier(r.priority_score, r.score_den),
     priority_score |-> r.priority_score,
     score_den |-> r.score_den,
     overdue_shown |-> r.sla_overdue,
     hours_left |-> IF r.sla_overdue THEN 0 ELSE r.time_left_hours]

(***************************************************************************)
(* Pipeline Board: the card of each lead of the first query                *)
(***************************************************************************)
\* if remaining.total_seconds() <= 0: OVERDUE
CardOverdue(deadline, now) == deadline - now <= 0

\* entered = lead.sla_entered_at or lead.created_at or utcnow()
LeadCard(lead, now) ==
    LET deadline == SlaEntered(lead, now)
                      + (IF lead.sla_hours = 0 \/ lead.sla_hours = Null
                         THEN DefaultSlaHours ELSE lead.sla_hours)
    IN  [id |-> lead.id, status |-> lead.status,
         deadline |-> deadline, now |-> now,
         overdue |-> CardOverdue(deadline, now),
         remaining |-> deadline - now]

(***************************************************************************)
(* One run of the Pipeline Board page                                      *)
(***************************************************************************)
\* The page queries the leads, and shows nothing but a notice when there is
\* none; otherwise it snapshots the table with leads_df and shows the KPIs,
\* the top priority cards and the card of every lead.  For n leads the run
\* reads the clock n times for the SLA metrics, 3n times for the priority
\* list and n times for the lead cards.
RenderBoard ==
    /\ ~board.shown
    /\ ~analytics.shown
    /\ IF leads = <<>>
       THEN /\ board' = [shown |-> TRUE, empty |-> TRUE, raised |-> FALSE,
                         pr_df |-> <<>>, top |-> <<>>, cards |-> <<>>]
            /\ clock' = clock
       ELSE LET df == leads_df(leads)
                n  == Len(df)
                bad == SlaMetricsRaiseAt(df)
            IN  IF bad # 0 \/ PriorityListRaises(df)
                THEN \* the exception ends the run: the page shows the
                     \* traceback in place of the KPIs and of what follows
                     \E ps \in AdvancePlans(bad - 1) :
                        /\ board' = [shown |-> TRUE, empty |-> FALSE,
                                     raised |-> TRUE, df |-> df,
                                     pr_df |-> <<>>, top |-> <<>>, cards |-> <<>>]
                        /\ clock' = ReadAt(ps, bad - 1)
                ELSE
                \E ps \in AdvancePlans(5 * n) :
                \E pr_df \in sort_values(priority_list(df, weights, ps, n)) :
                    /\ board' =
                         [shown |-> TRUE, empty |-> FALSE, raised |-> FALSE,
                          df |-> df,
                          kpi |-> BoardKPIs(df, ps, 0),
                          pr_df |-> pr_df,
                          top |-> [ k \in 1..Len(head(pr_df, TopN)) |->
                                      PriorityCard(head(pr_df, TopN)[k]) ],
                          cards |-> [ i \in 1..Len(leads) |->
                                        LeadCard(leads[i], ReadAt(ps, 4 * n + i)) ]]
                    /\ clock' = ReadAt(ps, 5 * n)
    /\ UNCHANGED <<leads, estimates, weights, analytics, evalA, evalB, tiers, kpis, run>>

(***************************************************************************)
(* One run of the Analytics & SLA page: the overdue table                  *)
(***************************************************************************)
\* overdue_flag = remaining.total_seconds() <= 0
AnalyticsOverdueStrict(deadline, now) == deadline - now < 0

AnalyticsOverdue(deadline, now) == deadline - now <= 0

OverdueRow(row, now) ==
    LET deadline == Deadline(row, now)
    IN  [id |-> row.id, status |-> row.status, deadline |-> deadline,
         now |-> now, overdue |-> AnalyticsOverdue(deadline, now)]

RenderAnalytics ==
    /\ ~board.shown
    /\ ~analytics.shown
    /\ LET df == leads_df(leads)
           n  == Len(df)
       IN  \E ps \in AdvancePlans(n) :
              /\ analytics' =
                   [shown |-> TRUE, empty |-> (n = 0),
                    overdue |-> [ i \in 1..n |-> OverdueRow(df[i], ReadAt(ps, i)) ]]
              /\ clock' = ReadAt(ps, n)
    /\ UNCHANGED <<leads, estimates, weights, board, evalA, evalB, tiers, kpis, run>>

\* time passes
Tick ==
    /\ clock < MaxClock
    /\ ~board.shown
    /\ ~analytics.shown
    /\ clock' = clock + 1
    /\ UNCHANGED <<leads, estimates, weights, board, analytics, evalA, evalB, tiers, kpis, run>>

(***************************************************************************)
(* The pages on a snapshot of the leads table                              *)
(***************************************************************************)
MaxLeads == 2
MaxSnapshot == 9

\* a lead as add_lead stores it at time 0, with the contacted flag as an
\* update may have left it
StoredLead(v, sh, c) ==
    [id |-> 0, estimated_value |-> v, status |-> LeadStatus_NEW, created_at |-> 0,
     sla_hours |-> sh, sla_entered_at |-> 0, contacted |-> c,
     inspection_scheduled |-> FALSE, estimate_submitted |-> FALSE,
     awarded_date |-> Null, qualified |-> FALSE]

\* the tables of at most n leads drawn from a set of leads; the id of a lead
\* is its place in the table
Tables(from, n) ==
    UNION { { [ i \in 1..k |-> [t[i] EXCEPT !.id = i] ] : t \in [1..k -> from] } :
            k \in 0..n }

BoardLeads ==
    { StoredLead(v, sh, c) : v \in {0, 2 * ValueScale}, sh \in {1, 2}, c \in BOOLEAN }

RankLeads == { StoredLead(v, 1, FALSE) : v \in {0, 2 * ValueScale} }

InitBoard ==
    /\ leads \in Tables(BoardLeads, MaxLeads)
    /\ estimates = <<>>
    /\ clock = 0
    /\ weights = DefaultWeights
    /\ board = NoBoard
    /\ kpis = NoKpis
    /\ run = NoRun
    /\ analytics = NoAnalytics
    /\ evalA = NoEval
    /\ evalB = NoEval
    /\ tiers = [labelled |-> FALSE]

SpecBoard == InitBoard /\ [][Tick \/ RenderBoard \/ RenderAnalytics]_vars

InitRank ==
    /\ leads \in Tables(RankLeads, MaxSnapshot)
    /\ estimates = <<>>
    /\ clock = MaxClock
    /\ weights = DefaultWeights
    /\ board = NoBoard
    /\ kpis = NoKpis
    /\ run = NoRun
    /\ analytics = NoAnalytics
    /\ evalA = NoEval
    /\ evalB = NoEval
    /\ tiers = [labelled |-> FALSE]

SpecRank == InitRank /\ [][RenderBoard]_vars

(***************************************************************************)
(* The Pipeline Board on a table that was not written by add_lead: the     *)
(* columns are nullable and SQLite keeps text in an Integer column, so a   *)
(* record may lack its SLA entry time, its creation time, its value or its *)
(* SLA hours, and its SLA hours may be text that is not a number.          *)
(***************************************************************************)
ForeignLead(entered, created, sh) ==
    [id |-> 0, estimated_value |-> Null, status |-> LeadStatus_NEW,
     created_at |-> created, sla_hours |-> sh, sla_entered_at |-> entered,
     contacted |-> FALSE, inspection_scheduled |-> FALSE,
     estimate_submitted |-> FALSE, awarded_date |-> Null, qualified |-> FALSE]

ForeignLeads ==
    { ForeignLead(entered, created, sh) :
        entered \in {Null, 0}, created \in {Null, 0}, sh \in {Null, 1, Unparsable} }

InitForeign ==
    /\ leads \in Tables(ForeignLeads, MaxLeads)
    /\ estimates = <<>>
    /\ clock = 0
    /\ weights = DefaultWeights
    /\ board = NoBoard
    /\ kpis = NoKpis
    /\ run = NoRun
    /\ analytics = NoAnalytics
    /\ evalA = NoEval
    /\ evalB = NoEval
    /\ tiers = [labelled |-> FALSE]

SpecForeign == InitForeign /\ [][RenderBoard]_vars

(***************************************************************************)
(* The KPIs on snapshots of leads in every state of qualification,         *)
(* inspection, estimate and award.  An update that sets the status Awarded *)
(* records the award date; a later update may leave that date on a lead of *)
(* another status.                                                         *)
(***************************************************************************)
MaxKpiLeads == 10

StageAndAward ==
    { <<LeadStatus_NEW, Null>>, <<LeadStatus_AWARDED, 1>>,
      <<LeadStatus_AWARDED, MaxClock>>, <<LeadStatus_LOST, MaxClock>> }

KpiLead(q, i, e, st, awd) ==
    [id |-> 0, estimated_value |-> 0, status |-> st, created_at |-> 0,
     sla_hours |-> 1, sla_entered_at |-> 0, contacted |-> FALSE,
     inspection_scheduled |-> i, estimate_submitted |-> e,
     awarded_date |-> awd, qualified |-> q]

\* new leads in every state of qualification and inspection, and qualified
\* leads in every state of estimate and award
KpiLeads ==
         { KpiLead(q, i, FALSE, LeadStatus_NEW, Null) : q \in BOOLEAN, i \in BOOLEAN }
    \cup { KpiLead(TRUE, FALSE, e, sa[1], sa[2]) : e \in BOOLEAN, sa \in StageAndAward }

\* n qualified leads, the first j of them with an inspection scheduled
QualifiedTables ==
    { [ k \in 1..n |->
          [KpiLead(TRUE, k <= j, FALSE, LeadStatus_NEW, Null) EXCEPT !.id = k] ] :
        <<n, j>> \in { nj \in (0..MaxKpiLeads) \X (0..MaxKpiLeads) : nj[2] <= nj[1] } }

InitKpi ==
    /\ leads \in Tables(KpiLeads, MaxLeads) \cup QualifiedTables
    /\ estimates = <<>>
    /\ clock = MaxClock
    /\ weights = DefaultWeights
    /\ board = NoBoard
    /\ kpis = NoKpis
    /\ run = NoRun
    /\ analytics = NoAnalytics
    /\ evalA = NoEval
    /\ evalB = NoEval
    /\ tiers = [labelled |-> FALSE]

SpecKpi == InitKpi /\ [][RenderBoard]_vars

\* compute_sla_metrics and the KPI code applied to a snapshot, the empty one
\* included (the page itself shows a notice and no KPI when the table is
\* empty)
AggregateKpis ==
    /\ ~kpis.done
    /\ LET df == leads_df(leads)
       IN  IF SlaMetricsRaiseAt(df) # 0
           THEN /\ kpis' = [done |-> TRUE, raised |-> TRUE, df |-> df]
                /\ clock' = clock
           ELSE \E ps \in AdvancePlans(Len(df)) :
                   /\ kpis' = [done |-> TRUE, raised |-> FALSE, df |-> df,
                               kpi |-> BoardKPIs(df, ps, 0)]
                   /\ clock' = ReadAt(ps, Len(df))
    /\ UNCHANGED <<leads, estimates, weights, board, analytics, evalA, evalB, tiers, run>>

SpecAggregate == InitKpi /\ [][AggregateKpis]_vars

(***************************************************************************)
(* The store: add_lead, the Update Lead form of a lead's card and          *)
(* create_estimate.  Of a lead the model keeps the fields the scorer, the  *)
(* KPIs and the SLA clock read; its contact data, notes, comments and      *)
(* lost_date are left out.                                                 *)
(***************************************************************************)
MaxStore == 1
MaxEstimates == 1

\* the values the forms submit
CaptureValues == {2 * ValueScale}
CaptureSlaHours == {1}
UpdateStatuses == {LeadStatus_AWARDED, LeadStatus_LOST}
EstimateAmounts == {ValueScale}

\* add_lead: the new lead is New, with sla_entered_at = utcnow(), created_at
\* by its column default and every flag False
AddLeadStore(cap) ==
    /\ Len(leads) < cap
    /\ \E v \in CaptureValues, sh \in CaptureSlaHours, q \in BOOLEAN :
          leads' = Append(leads,
                     [id |-> Len(leads) + 1,
                      estimated_value |-> v,
                      status |-> LeadStatus_NEW,
                      created_at |-> clock,
                      sla_hours |-> IF sh = 0 THEN DefaultSlaHours ELSE sh,
                      sla_entered_at |-> clock,
                      contacted |-> FALSE,
                      inspection_scheduled |-> FALSE,
                      estimate_submitted |-> FALSE,
                      awarded_date |-> Null,
                      qualified |-> q])
    /\ UNCHANGED <<estimates, clock, weights, board, analytics, evalA, evalB, tiers, kpis>>

\* an update that stores utcnow() as the SLA entry time whether or not the
\* lead has one
UpdateLeadResetsSlaEntry(i) ==
    /\ i \in DOMAIN leads
    /\ \E new_status \in UpdateStatuses, contacted_flag \in BOOLEAN :
          leads' = [leads EXCEPT ![i] =
                     [@ EXCEPT
                        !.status = new_status,
                        !.contacted = contacted_flag,
                        !.sla_entered_at = clock,
                        !.awarded_date =
                            IF new_status = LeadStatus_AWARDED THEN clock ELSE @]]
    /\ UNCHANGED <<estimates, clock, weights, board, analytics, evalA, evalB, tiers, kpis>>

\* the Update Lead form of lead i is submitted: the status and the flags of
\* the form are stored, sla_entered_at is set if it is None, and the status
\* Awarded stores awarded_date = utcnow().  The inspection and estimate
\* boxes are submitted as the lead has them.
UpdateLeadStore(i) ==
    /\ i \in DOMAIN leads
    /\ \E new_status \in UpdateStatuses, contacted_flag \in BOOLEAN :
          leads' = [leads EXCEPT ![i] =
                     [@ EXCEPT
                        !.status = new_status,
                        !.contacted = contacted_flag,
                        !.sla_entered_at = IF @ = Null THEN clock ELSE @,
                        !.awarded_date =
                            IF new_status = LeadStatus_AWARDED THEN clock ELSE @]]
    /\ UNCHANGED <<estimates, clock, weights, board, analytics, evalA, evalB, tiers, kpis>>

\* create_estimate that leaves the status of a lead that is Awarded or Lost
CreateEstimateKeepsClosedStatus(lead_id) ==
    /\ \E amount \in EstimateAmounts :
          estimates' = Append(estimates,
                         [id |-> Len(estimates) + 1, lead_id |-> lead_id,
                          amount |-> amount, created_at |-> clock,
                          approved |-> FALSE, lost |-> FALSE])
    /\ leads' = IF lead_id \in DOMAIN leads
                THEN [leads EXCEPT ![lead_id] =
                        [@ EXCEPT !.estimate_submitted = TRUE,
                                  !.status =
                                      IF @ \in {LeadStatus_AWARDED, LeadStatus_LOST}
                                      THEN @ ELSE LeadStatus_ESTIMATE_SUBMITTED]]
                ELSE leads

\* create_estimate(session, lead_id, amount): the estimate is added and
\* committed; then the lead of that id is looked up and, if there is one, it
\* is marked estimate_submitted with the status Estimate Submitted
\* (estimate_submitted_at is no column of the table and is not stored)
create_estimate(lead_id) ==
    /\ \E amount \in EstimateAmounts :
          estimates' = Append(estimates,
                         [id |-> Len(estimates) + 1, lead_id |-> lead_id,
                          amount |-> amount, created_at |-> clock,
                          approved |-> FALSE, lost |-> FALSE])
    /\ leads' = IF lead_id \in DOMAIN leads
                THEN [leads EXCEPT ![lead_id] =
                        [@ EXCEPT !.estimate_submitted = TRUE,
                                  !.status = LeadStatus_ESTIMATE_SUBMITTED]]
                ELSE leads

\* the Create Estimate form of the card of lead i is submitted
CreateEstimateStore(i) ==
    /\ i \in DOMAIN leads
    /\ Len(estimates) < MaxEstimates
    /\ create_estimate(i)
    /\ UNCHANGED <<clock, weights, board, analytics, evalA, evalB, tiers, kpis>>

AddLead == AddLeadStore(MaxStore) /\ UNCHANGED run

UpdateLead == \E i \in DOMAIN leads : UpdateLeadStore(i) /\ UNCHANGED run

CreateEstimate == \E i \in DOMAIN leads : CreateEstimateStore(i) /\ UNCHANGED run

SpecStore == InitIdle /\ [][AddLead \/ UpdateLead \/ CreateEstimate \/ Tick]_vars

(***************************************************************************)
(* create_estimate called with any lead id, that of a stored lead or not,  *)
(* on tables of leads in the states the forms leave them in.               *)
(***************************************************************************)
MaxEstimateCalls == 2

\* a stored lead by its status, its award date and its estimate box
EstimateLead(st, awd, e) ==
    [StoredLead(2 * ValueScale, 1, FALSE) EXCEPT
        !.status = st, !.awarded_date = awd, !.estimate_submitted = e]

EstimateLeads ==
    { EstimateLead(LeadStatus_NEW, Null, FALSE),
      EstimateLead(LeadStatus_AWARDED, 1, FALSE),
      EstimateLead(LeadStatus_AWARDED, 1, TRUE),
      EstimateLead(LeadStatus_LOST, Null, FALSE),
      EstimateLead(LeadStatus_ESTIMATE_SUBMITTED, Null, TRUE) }

InitEstimate ==
    /\ leads \in Tables(EstimateLeads, MaxLeads)
    /\ estimates = <<>>
    /\ clock = MaxClock
    /\ weights = DefaultWeights
    /\ board = NoBoard
    /\ kpis = NoKpis
    /\ run = NoRun
    /\ analytics = NoAnalytics
    /\ evalA = NoEval
    /\ evalB = NoEval
    /\ tiers = [labelled |-> FALSE]

\* a call of create_estimate; the id Len(leads) + 1 is the id of no lead
CreateEstimateCall ==
    /\ Len(estimates) < MaxEstimateCalls
    /\ \E lead_id \in 1..(Len(leads) + 1) : create_estimate(lead_id)
    /\ UNCHANGED <<clock, weights, board, analytics, evalA, evalB, tiers, kpis, run>>

SpecEstimate == InitEstimate /\ [][CreateEstimateCall]_vars

(***************************************************************************)
(* A run of the Pipeline Board page, statement by statement, while other   *)
(* sessions write the store: the two queries, the KPIs, the priority list  *)
(* and the lead cards are separate steps, and a write may fall between any *)
(* two of them.                                                            *)
(***************************************************************************)
MaxWrites == 2

Untouched == <<weights, board, analytics, evalA, evalB, tiers, kpis>>

\* leads = s.query(Lead).order_by(Lead.created_at.desc()).all(); if not leads
RunQuery ==
    /\ run.pc = "idle"
    /\ run' = [pc |-> IF leads = <<>> THEN "done" ELSE "snapshot",
               writes |-> run.writes, leads_q |-> leads]
    /\ UNCHANGED <<leads, estimates, clock>>
    /\ UNCHANGED Untouched

\* df = leads_df(s): the second query, and the snapshot of its rows
RunSnapshot ==
    /\ run.pc = "snapshot"
    /\ run' = [pc |-> "kpis", writes |-> run.writes, leads_q |-> run.leads_q,
               df |-> leads_df(leads)]
    /\ UNCHANGED <<leads, estimates, clock>>
    /\ UNCHANGED Untouched

\* sla_metrics = compute_sla_metrics(df) and the KPIs that follow it
RunKpis ==
    /\ run.pc = "kpis"
    /\ IF SlaMetricsRaiseAt(run.df) # 0
       THEN /\ run' = [pc |-> "raised", writes |-> run.writes,
                       leads_q |-> run.leads_q, df |-> run.df]
            /\ clock' = clock
       ELSE \E ps \in AdvancePlans(Len(run.df)) :
               /\ run' = [pc |-> "priority", writes |-> run.writes,
                          leads_q |-> run.leads_q, df |-> run.df,
                          kpi_from |-> run.df,
                          kpi |-> BoardKPIs(run.df, ps, 0)]
               /\ clock' = ReadAt(ps, Len(run.df))
    /\ UNCHANGED <<leads, estimates>>
    /\ UNCHANGED Untouched

\* for _, row in df.iterrows(): the rows the priority list is built from
PriorityRequeried(df, store) == leads_df(store)

PrioritySource(df, store) == df

\* priority_list, pr_df and the top cards
RunPriority ==
    /\ run.pc = "priority"
    /\ LET src == PrioritySource(run.df, leads)
           n   == Len(src)
       IN  \E ps \in AdvancePlans(3 * n) :
           \E pr_df \in sort_values(priority_list(src, weights, ps, 0)) :
              /\ run' = [pc |-> "cards", writes |-> run.writes,
                         leads_q |-> run.leads_q, df |-> run.df,
                         kpi_from |-> run.kpi_from, kpi |-> run.kpi,
                         pr_from |-> src, pr_df |-> pr_df,
                         top |-> [ k \in 1..Len(head(pr_df, TopN)) |->
                                     PriorityCard(head(pr_df, TopN)[k]) ]]
              /\ clock' = ReadAt(ps, 3 * n)
    /\ UNCHANGED <<leads, estimates>>
    /\ UNCHANGED Untouched

\* for lead in leads: the card of every lead of the first query
RunCards ==
    /\ run.pc = "cards"
    /\ LET n == Len(run.leads_q)
       IN  \E ps \in AdvancePlans(n) :
              /\ run' = [pc |-> "done", writes |-> run.writes,
                         leads_q |-> run.leads_q, df |-> run.df,
                         kpi_from |-> run.kpi_from, kpi |-> run.kpi,
                         pr_from |-> run.pr_from, pr_df |-> run.pr_df,
                         top |-> run.top,
                         cards |-> [ i \in 1..n |->
                                       LeadCard(run.leads_q[i], ReadAt(ps, i)) ]]
              /\ clock' = ReadAt(ps, n)
    /\ UNCHANGED <<leads, estimates>>
    /\ UNCHANGED Untouched

\* a write of another session before the run ends; at most MaxWrites of them
Concurrent(write) ==
    /\ run.pc \notin {"done", "raised"}
    /\ run.writes < MaxWrites
    /\ write
    /\ run' = [run EXCEPT !.writes = @ + 1]

OtherAddLead == Concurrent(AddLeadStore(MaxLeads))

OtherUpdateLead == \E i \in DOMAIN leads : Concurrent(UpdateLeadStore(i))

OtherCreateEstimate == \E i \in DOMAIN leads : Concurrent(CreateEstimateStore(i))

\* the table holds no lead or one lead when the page is opened; the writes
\* and the steps of the run all fall within one hour
InitRun ==
    /\ leads \in Tables({StoredLead(2 * ValueScale, 1, FALSE)}, 1)
    /\ estimates = <<>>
    /\ clock = MaxClock
    /\ weights = DefaultWeights
    /\ board = NoBoard
    /\ kpis = NoKpis
    /\ run = NoRun
    /\ analytics = NoAnalytics
    /\ evalA = NoEval
    /\ evalB = NoEval
    /\ tiers = [labelled |-> FALSE]

SpecRun ==
    InitRun /\ [][RunQuery \/ RunSnapshot \/ RunKpis \/ RunPriority \/ RunCards
                    \/ OtherAddLead \/ OtherUpdateLead \/ OtherCreateEstimate]_vars

(***************************************************************************)
(* Claims about the pages                                                  *)
(***************************************************************************)
BoardRan == board.shown /\ ~board.empty /\ ~board.raised

Entries == IF BoardRan THEN { board.pr_df[i] : i \in DOMAIN board.pr_df } ELSE {}

\* hours is what the claim says of the time left at `now` before `deadline`
HoursLeftAsClaimed(hours, deadline, now) ==
    /\ hours >= 0
    /\ now < deadline => hours = deadline - now
    /\ now = deadline => hours = 0
    /\ now > deadline => hours = 0

\* C3: the reported hours_left is never negative: it is (deadline - now) in
\* hours while now < deadline, exactly 0 when now = deadline and 0 for every
\* later now; for the time left the scorer returns and for the
\* time_left_hours of every priority-list entry, each at its own clock read.
C3_HoursLeftNeverNegative ==
    \A e \in Entries :
        /\ HoursLeftAsClaimed(e.time_left_hours, e.sla_deadline, e.t_left)
        /\ HoursLeftAsClaimed(e.scorer_time_left, e.sla_deadline, e.t_score)

\* one entry read exactly at its deadline and another read after its deadline
C3_Witness ==
    /\ \E e \in Entries : e.t_left = e.sla_deadline /\ e.time_left_hours = 0
    /\ \E e \in Entries : e.t_left > e.sla_deadline /\ e.time_left_hours = 0
                            /\ e.scorer_time_left = 0

\* C4: a lead is reported overdue exactly when now >= deadline, with
\* deadline = SLA entry time + SLA window hours, in the priority list, on the
\* card of the lead and in the overdue table of the Analytics page.
C4_OverdueBoundary ==
    /\ \A e \in Entries :
          /\ e.sla_deadline = leads[e.id].sla_entered_at + leads[e.id].sla_hours
          /\ e.sla_overdue <=> (e.t_overdue >= e.sla_deadline)
    /\ BoardRan =>
          \A i \in DOMAIN board.cards :
              /\ board.cards[i].deadline = leads[i].sla_entered_at + leads[i].sla_hours
              /\ board.cards[i].overdue <=> (board.cards[i].now >= board.cards[i].deadline)
    /\ analytics.shown =>
          \A i \in DOMAIN analytics.overdue :
              /\ analytics.overdue[i].deadline
                     = leads[i].sla_entered_at + leads[i].sla_hours
              /\ analytics.overdue[i].overdue
                     <=> (analytics.overdue[i].now >= analytics.overdue[i].deadline)

\* the overdue table holds a lead read at the instant of its deadline, which
\* it reports overdue, and a lead read before its deadline, which it does not
C4_Witness ==
    /\ analytics.shown
    /\ \E i \in DOMAIN analytics.overdue :
          /\ analytics.overdue[i].now = analytics.overdue[i].deadline
          /\ analytics.overdue[i].overdue
    /\ \E i \in DOMAIN analytics.overdue :
          /\ analytics.overdue[i].now < analytics.overdue[i].deadline
          /\ ~analytics.overdue[i].overdue

\* C5: the SLA breach rate counts a lead as breached exactly when
\* now >= deadline and the lead is not contacted, so that a lead that is not
\* contacted and whose deadline equals now is counted, and the rate is
\* breached_count / total * 100.
C5_BreachAtOrAfterDeadline ==
    BoardRan =>
        LET m == board.kpi.sla_metrics
            AsClaimed(x) == x.now >= x.deadline /\ ~x.contacted
        IN  /\ \A i \in DOMAIN m.rows : m.rows[i].breached <=> AsClaimed(m.rows[i])
            /\ m.sla_breach_rate =
                  [num |-> Count([ i \in DOMAIN m.rows |-> AsClaimed(m.rows[i]) ]),
                   den |-> m.total]

\* C6: the ranked output holds exactly min(number of leads, 8) results, by
\* score highest first, each a different lead of the snapshot with the score
\* that lead has, and every lead left out has a score no greater than every
\* lead returned; the empty snapshot gives the empty output.
C6_TopNByScore ==
    board.shown =>
        LET top == board.top
            in_top == { top[k].id : k \in DOMAIN top }
        IN  /\ Len(top) = Min(Len(leads), TopN)
            /\ \A k \in 1..(Len(top) - 1) :
                  top[k].priority_score >= top[k + 1].priority_score
            /\ \A j, k \in DOMAIN top : top[j].id = top[k].id => j = k
            /\ in_top \subseteq 1..Len(leads)
            /\ \A e \in Entries :
                  e.id \notin in_top =>
                      \A k \in DOMAIN top : e.priority_score <= top[k].priority_score
            /\ \A e \in Entries :
                  e.priority_score =
                      compute_priority_for_lead_row(
                          leads_df(leads)[e.id], weights, e.t_score).score_num
            /\ \A k \in DOMAIN top :
                  \E e \in Entries :
                      e.id = top[k].id /\ e.priority_score = top[k].priority_score
            /\ leads = <<>> => top = <<>>

\* nine leads of two different scores, the high score placed last in the
\* snapshot: eight are returned, the first of them the high score, and a lead
\* of the low score is left out
C6_Witness ==
    /\ BoardRan
    /\ Len(leads) = TopN + 1
    /\ Len(board.top) = TopN
    /\ board.top[1].id = TopN + 1
    /\ board.top[1].priority_score > board.top[TopN].priority_score
    /\ \E e \in Entries : e.id \notin { board.top[k].id : k \in DOMAIN board.top }

\* C7: ranking is stable: of two leads with equal scores, the one earlier in
\* the snapshot is earlier in the ranked output.
C7_StableRanking ==
    BoardRan =>
        \A j, k \in DOMAIN board.pr_df :
            ( /\ j < k
              /\ board.pr_df[j].priority_score = board.pr_df[k].priority_score )
            => board.pr_df[j].id < board.pr_df[k].id

\* the value a field has by default when the record lacks it or holds text
\* that does not parse
ValueOrDefault(x, default) == IF x = Null \/ x = Unparsable THEN default ELSE x

\* C13: scoring, ranking and KPI aggregation never raise for any lead record:
\* a record whose SLA entry time, creation time, estimated value or SLA hours
\* is missing or unparsable is scored, ranked and aggregated with the default
\* for that field (creation time, now, 0, 24), and no exception reaches the
\* caller.
C13_NeverRaisesDefaultsUsed ==
    (board.shown /\ ~board.empty) =>
        /\ ~board.raised
        /\ Len(board.pr_df) = Len(leads)
        /\ board.kpi.sla_metrics.total = Len(leads)
        /\ \A i \in DOMAIN board.pr_df :
              LET e == board.pr_df[i]
                  l == leads[e.id]
                  entered == ValueOrDefault(l.sla_entered_at,
                                 ValueOrDefault(l.created_at, e.t_overdue))
              IN  /\ e.estimated_value = ValueOrDefault(l.estimated_value, 0)
                  /\ e.sla_deadline
                        = entered + ValueOrDefault(l.sla_hours, DefaultSlaHours)

\* a quotient that is 0 and has a denominator that is not 0
IsZeroRate(r) == r.num = 0 /\ r.den # 0

\* C14: for an empty lead snapshot every KPI rate (SLA success, SLA breach,
\* qualification rate, inspection conversion, estimate win rate) and the
\* conversion velocity is 0, and no quotient has the denominator 0.
C14_EmptySnapshotZeroKpis ==
    (kpis.done /\ kpis.df = <<>>) =>
        /\ ~kpis.raised
        /\ IsZeroRate(kpis.kpi.sla_metrics.sla_success_pct)
        /\ IsZeroRate(kpis.kpi.sla_metrics.sla_breach_rate)
        /\ IsZeroRate(kpis.kpi.qual_rate)
        /\ IsZeroRate(kpis.kpi.inspection_conversion)
        /\ IsZeroRate(kpis.kpi.estimate_win_rate)
        /\ IsZeroRate(kpis.kpi.conv_velocity)

\* the KPIs of the empty snapshot have been computed
C14_Witness ==
    /\ kpis.done
    /\ leads = <<>>
    /\ kpis.df = <<>>
    /\ kpis.kpi.sla_metrics.total = 0
    /\ IsZeroRate(kpis.kpi.qual_rate)
    /\ IsZeroRate(kpis.kpi.conv_velocity)

\* the leads of the table that satisfy a condition, by id
Qualified == { k \in DOMAIN leads : leads[k].qualified }
InspectionScheduled == { k \in DOMAIN leads : leads[k].inspection_scheduled }
EstimateSubmitted == { k \in DOMAIN leads : leads[k].estimate_submitted }
Awarded == { k \in DOMAIN leads : leads[k].status = LeadStatus_AWARDED }
AwardedWithDate == { k \in Awarded : leads[k].awarded_date # Null }

\* C15: inspection conversion is (number of leads with inspection_scheduled
\* true) / (number of qualified leads) * 100, and 0 when no lead is
\* qualified; ten qualified leads of which four are inspection-scheduled
\* give 40.0.
C15_InspectionConversion ==
    BoardRan =>
        LET r == board.kpi.inspection_conversion
        IN  /\ Qualified = {} => IsZeroRate(r)
            /\ Qualified # {} =>
                  /\ r.num = Cardinality(InspectionScheduled)
                  /\ r.den = Cardinality(Qualified)
            /\ ( /\ Cardinality(Qualified) = 10
                 /\ Len(leads) = 10
                 /\ Cardinality(InspectionScheduled) = 4 )
               => 100 * r.num = 40 * r.den

\* the board has run on ten qualified leads, four with an inspection scheduled
C15_Witness ==
    /\ BoardRan
    /\ Len(leads) = 10
    /\ Cardinality(Qualified) = 10
    /\ Cardinality(InspectionScheduled) = 4
    /\ board.kpi.inspection_conversion = [num |-> 4, den |-> 10]

\* C16: estimate win rate is (number of awarded leads) / (number of leads
\* with estimate_submitted true) * 100, and 0 whenever no lead has
\* estimate_submitted true, even if some leads are awarded.
C16_EstimateWinRate ==
    BoardRan =>
        LET r == board.kpi.estimate_win_rate
        IN  /\ EstimateSubmitted = {} => IsZeroRate(r)
            /\ EstimateSubmitted # {} =>
                  /\ r.num = Cardinality(Awarded)
                  /\ r.den = Cardinality(EstimateSubmitted)

\* an awarded lead without an estimate beside a lead with an estimate: the
\* rate is 1 / 1
C16_Witness ==
    /\ BoardRan
    /\ Cardinality(Awarded) = 1
    /\ Cardinality(EstimateSubmitted) = 1
    /\ Awarded \cap EstimateSubmitted = {}
    /\ board.kpi.estimate_win_rate = [num |-> 1, den |-> 1]

\* the sum of (award time - creation time) over a set of leads
RECURSIVE HoursToAward(_)
HoursToAward(ids) ==
    IF ids = {} THEN 0
    ELSE LET k == CHOOSE x \in ids : TRUE
         IN  (leads[k].awarded_date - leads[k].created_at) + HoursToAward(ids \ {k})

\* C17: conversion velocity is the arithmetic mean, over exactly the awarded
\* leads that have a recorded award timestamp, of (award_time - created_time)
\* in hours, and 0 when there is no such lead.
C17_ConversionVelocity ==
    BoardRan =>
        LET r == board.kpi.conv_velocity
        IN  /\ AwardedWithDate = {} => IsZeroRate(r)
            /\ AwardedWithDate # {} =>
                  /\ r.num = HoursToAward(AwardedWithDate)
                  /\ r.den = Cardinality(AwardedWithDate)

\* a lead awarded after one hour beside a lead that holds an award date and
\* is no longer awarded: the mean is that of the awarded lead alone
C17_Witness ==
    /\ BoardRan
    /\ Cardinality(AwardedWithDate) = 1
    /\ \E k \in DOMAIN leads :
          leads[k].status # LeadStatus_AWARDED /\ leads[k].awarded_date # Null
    /\ board.kpi.conv_velocity = [num |-> 1, den |-> 1]

\* C18: the SLA entry time of a lead is its explicit SLA-entry time when
\* present, else its creation time, else now; when the fallback to now
\* applies, the lead is not overdue and its hours_left equals its full SLA
\* window.
C18_FallbackToNowFullWindow ==
    BoardRan =>
        \A i \in DOMAIN board.pr_df :
            LET e == board.pr_df[i]
                l == leads[e.id]
                window == ValueOrDefault(l.sla_hours, DefaultSlaHours)
            IN  /\ l.sla_entered_at # Null
                      => e.sla_deadline = l.sla_entered_at + window
                /\ (l.sla_entered_at = Null /\ l.created_at # Null)
                      => e.sla_deadline = l.created_at + window
                /\ (l.sla_entered_at = Null /\ l.created_at = Null)
                      => /\ e.sla_deadline = e.t_overdue + window
                         /\ ~e.sla_overdue
                         /\ e.scorer_time_left = window
                         /\ e.time_left_hours = window

\* C20: after any sequence of lead creations, lead updates and estimate
\* creations, a lead has a recorded awarded timestamp only if its current
\* stage is Awarded.
C20_AwardDateOnlyIfAwarded ==
    \A i \in DOMAIN leads :
        leads[i].awarded_date # Null => leads[i].status = LeadStatus_AWARDED

\* the run has computed its KPIs and its priority list
RunRanked == run.pc \in {"cards", "done"} /\ run.leads_q # <<>>

\* C19: within one Pipeline Board render, the KPI values and the ranked
\* priority list are computed from the same set of lead records with the
\* same field values, under every interleaving of lead creations, updates
\* and estimate creations by other callers during the render.
C19_KpisAndRankingFromOneSnapshot ==
    RunRanked =>
        LET rows == run.kpi.sla_metrics.rows
        IN  /\ run.kpi_from = run.pr_from
            /\ run.kpi.sla_metrics.total = Len(run.pr_df)
            /\ \A i \in DOMAIN run.pr_df :
                  \E j \in DOMAIN rows :
                      /\ rows[j].id = run.pr_df[i].id
                      /\ rows[j].deadline = run.pr_df[i].sla_deadline
                      /\ run.kpi_from[j].status = run.pr_df[i].status
                      /\ run.kpi_from[j].estimated_value = run.pr_df[i].estimated_value
            /\ run.kpi.awarded_count
                  = Cardinality({ i \in DOMAIN run.pr_df :
                                    run.pr_df[i].status = LeadStatus_AWARDED })

\* since the snapshot was taken another session has created a lead and has
\* set a lead of the snapshot to Awarded, and the priority list is computed
C19_Witness ==
    /\ run.pc = "cards"
    /\ Len(leads) > Len(run.df)
    /\ \E i \in DOMAIN run.df :
          /\ leads[i].status = LeadStatus_AWARDED
          /\ run.df[i].status # LeadStatus_AWARDED
    /\ run.kpi.awarded_count = 0
    /\ Len(run.pr_df) = Len(run.df)

\* C21: in every priority-list entry built by the Pipeline Board, sla_overdue
\* is true if and only if time_left_hours is 0, although the two are computed
\* from separate reads of the wall clock between which time may advance.
C21_OverdueIffNoTimeLeft ==
    \A e \in Entries : e.sla_overdue <=> (e.time_left_hours = 0)


\* a rate lies between 0 and 100 per cent
IsPercentage(r) == r.den > 0 /\ 0 <= r.num /\ r.num <= r.den

\* C22: for every lead snapshot each percentage KPI (SLA success, SLA breach,
\* qualification rate, inspection conversion, estimate win rate) is between
\* 0 and 100 inclusive.
C22_PercentagesWithinRange ==
    BoardRan =>
        /\ IsPercentage(board.kpi.sla_metrics.sla_success_pct)
        /\ IsPercentage(board.kpi.sla_metrics.sla_breach_rate)
        /\ IsPercentage(board.kpi.qual_rate)
        /\ IsPercentage(board.kpi.inspection_conversion)
        /\ IsPercentage(board.kpi.estimate_win_rate)


\* C23: create_estimate for an existing lead always leaves that lead with
\* estimate_submitted true and the status Estimate Submitted, whatever its
\* status was before (Awarded and Lost included), and changes no other lead;
\* for a lead id that does not exist it records the estimate and changes no
\* lead.
C23_CreateEstimateMarksOnlyItsLead ==
    [][ estimates' # estimates =>
          LET est == estimates'[Len(estimates')]
          IN  /\ estimates' = Append(estimates, est)
              /\ est.lead_id \in DOMAIN leads =>
                    /\ DOMAIN leads' = DOMAIN leads
                    /\ leads'[est.lead_id].estimate_submitted
                    /\ leads'[est.lead_id].status = LeadStatus_ESTIMATE_SUBMITTED
                    /\ \A k \in DOMAIN leads \ {est.lead_id} : leads'[k] = leads[k]
              /\ est.lead_id \notin DOMAIN leads => leads' = leads ]_vars

\* one estimate was recorded for the id of no lead and one for a lead that
\* had been awarded, which now has the status Estimate Submitted, beside a
\* lost lead without an estimate
C23_Witness ==
    /\ \E a \in DOMAIN estimates : estimates[a].lead_id \notin DOMAIN leads
    /\ \E b \in DOMAIN estimates, k \in DOMAIN leads, j \in DOMAIN leads :
          /\ estimates[b].lead_id = k
          /\ leads[k].awarded_date # Null
          /\ leads[k].estimate_submitted
          /\ leads[k].status = LeadStatus_ESTIMATE_SUBMITTED
          /\ j # k
          /\ leads[j].status = LeadStatus_LOST
          /\ ~leads[j].estimate_submitted


\* C24: the SLA entry time of a lead is set when the lead is created and is
\* never changed afterwards by any sequence of lead updates and estimate
\* creations (an update sets it only when it is null), so the SLA deadline
\* of the lead changes only if its sla_hours changes.
C24_SlaEntryTimeFixedAtCreation ==
    [][ /\ \A k \in DOMAIN leads' \ DOMAIN leads :
              leads'[k].sla_entered_at = clock
        /\ \A k \in DOMAIN leads :
              /\ k \in DOMAIN leads'
              /\ leads[k].sla_entered_at # Null
              /\ leads'[k].sla_entered_at = leads[k].sla_entered_at
              /\ leads'[k].sla_hours = leads[k].sla_hours
                    => Deadline(leads'[k], clock') = Deadline(leads[k], clock) ]_vars

\* a lead created at time 0 was updated to Awarded at a later time and an
\* estimate was created for it later still; its SLA entry time is 0
C24_Witness ==
    \E k \in DOMAIN leads, e \in DOMAIN estimates :
        /\ leads[k].created_at = 0
        /\ leads[k].sla_entered_at = 0
        /\ leads[k].awarded_date # Null
        /\ leads[k].awarded_date > 0
        /\ estimates[e].lead_id = k
        /\ estimates[e].created_at > leads[k].awarded_date
        /\ leads[k].status = LeadStatus_ESTIMATE_SUBMITTED
        /\ Deadline(leads[k], clock) = leads[k].sla_hours

=============================================================================
